---- MODULE Spec2Model ----
(***************************************************************************)
(* The three Tiingo news scripts of the repository as one state machine:   *)
(*   fetch_tiingo_news.py            (script = "news")                     *)
(*   fetch_tiingo_top_articles.py    (script = "top")                      *)
(*   fetch_morning_market_summaries.py (script = "morning")                *)
(* Each run resolves the API key, fetches, filters/ranks (morning only),   *)
(* writes the JSON file and prints the console preview.                    *)
(*                                                                         *)
(* Text is modelled as a sequence of tokens.  In the credential resolver a *)
(* token is one character, except that the key name TIINGO_API_KEY and a   *)
(* token body such as "abc" are single tokens (they hold no "=", "#",      *)
(* quote or white space).  In titles and descriptions a token is a word.   *)
(***************************************************************************)
EXTENDS Integers, Sequences, FiniteSets, TLC

VARIABLES
    script,           \* which of the three scripts this run executes
    pc,               \* position of the run
    api_key,          \* local api_key of the fetch function, <<>> outside its call
    ticker_idx,       \* number of market tickers already processed by the loop
    requested,        \* the tickers for which a request was issued, in order
    delivered,        \* articles the API delivered in successful responses, in order
    all_articles,     \* the decoded article objects, in fetch order (object i = index i)
    unique_articles,  \* values of the dedup dict: references into all_articles
    morning_articles, \* references into all_articles
    summary_articles, \* references into all_articles
    articles,         \* main()'s articles: references into all_articles
    system_tz,        \* UTC offset of the system zone astimezone() read, 0 while unread
    sink,             \* what the sink met: output argument, parent directory, permissions
    dir_exists,       \* whether the output file's parent directory exists
    file,             \* the output file
    stdout_last,      \* the last line printed
    previewed,        \* whether the article preview was printed
    err               \* the exception that ended the run, "none" if none did

vars == <<script, pc, api_key, ticker_idx, requested, delivered, all_articles,
          unique_articles, morning_articles, summary_articles, articles,
          system_tz, sink, dir_exists, file, stdout_last, previewed, err>>

\* Largest number of articles the API delivers to one run.
MaxArticles == 2

\* Largest value of the --count argument of fetch_tiingo_news.py.
MaxCount == 2

Min(a, b) == IF a < b THEN a ELSE b
Max(a, b) == IF a > b THEN a ELSE b

Range(s) == {s[i] : i \in 1..Len(s)}

(***************************************************************************)
(* Credential resolver: get_api_key().                                     *)
(***************************************************************************)
KEY == "TIINGO_API_KEY"
DQ == "\""
SQ == "'"
NL == "\n"
SP == " "

Whitespace == {SP, NL}
Quotes == {DQ, SQ}

\* s with the leading tokens of set cs removed (str.lstrip).
RECURSIVE LStrip(_, _)
LStrip(s, cs) ==
    IF s # <<>> /\ Head(s) \in cs THEN LStrip(Tail(s), cs) ELSE s

\* s with the trailing tokens of set cs removed (str.rstrip).
RECURSIVE RStrip(_, _)
RStrip(s, cs) ==
    IF s # <<>> /\ s[Len(s)] \in cs THEN RStrip(SubSeq(s, 1, Len(s) - 1), cs) ELSE s

\* str.strip(cs): every leading and trailing token of cs removed.
Strip(s, cs) == RStrip(LStrip(s, cs), cs)

\* Index of the first "=" of s, 0 if there is none.
FirstEq(s) ==
    IF "=" \in Range(s)
    THEN CHOOSE i \in 1..Len(s) : s[i] = "=" /\ \A j \in 1..(i - 1) : s[j] # "="
    ELSE 0

\* line.strip().split("=", 1) for a line holding "=": <<k, v>>.
SplitKV(line) ==
    LET t == Strip(line, Whitespace)
        i == FirstEq(t)
    IN <<SubSeq(t, 1, i - 1), SubSeq(t, i + 1, Len(t))>>

\* The loop over the lines of .env: the value of api_key after it.
\* found is FALSE when no line set api_key (it keeps the falsy env value).
RECURSIVE ScanEnvFile(_)
ScanEnvFile(lines) ==
    IF lines = <<>> THEN [found |-> FALSE, v |-> <<>>]
    ELSE LET line == Head(lines) IN
         IF line = <<>> \/ Head(line) = "#" \/ "=" \notin Range(line)
         THEN ScanEnvFile(Tail(lines))
         ELSE LET kv == SplitKV(line) IN
              IF kv[1] = <<KEY>>
              THEN [found |-> TRUE, v |-> kv[2]]
              ELSE ScanEnvFile(Tail(lines))

\* api_key.strip('"\'')
StripQuotes(s) == Strip(s, Quotes)

\* get_api_key(): env is the TIINGO_API_KEY environment variable, envfile the
\* adjacent .env file.  raised = TRUE models the exception leaving the function.
get_api_key(env, envfile) ==
    LET from_env == IF env.set THEN env.val ELSE <<>>
        scanned == IF envfile.kind = "file" THEN ScanEnvFile(envfile.lines)
                   ELSE [found |-> FALSE, v |-> <<>>]
        k1 == IF from_env # <<>> THEN from_env
              ELSE IF scanned.found THEN scanned.v ELSE <<>>
    IN IF from_env = <<>> /\ envfile.kind = "unreadable"
       THEN [raised |-> TRUE, exc |-> "OSError", key |-> <<>>]
       ELSE IF k1 = <<>>
       THEN [raised |-> TRUE, exc |-> "RuntimeError", key |-> <<>>]
       ELSE [raised |-> FALSE, exc |-> "none", key |-> StripQuotes(k1)]

\* Values of the environment variable the model draws from.
EnvValues ==
    { [set |-> FALSE, val |-> <<>>],
      [set |-> TRUE, val |-> <<>>],
      [set |-> TRUE, val |-> <<"abc">>],
      [set |-> TRUE, val |-> <<DQ, "abc", DQ>>],
      [set |-> TRUE, val |-> <<DQ, DQ>>] }

\* Contents of the adjacent .env file the model draws from.
EnvFiles ==
    { [kind |-> "absent", lines |-> <<>>],
      [kind |-> "unreadable", lines |-> <<>>],
      [kind |-> "file", lines |-> <<>>],
      [kind |-> "file", lines |-> << <<KEY, "=", DQ, "abc", DQ, NL>> >>],
      [kind |-> "file", lines |-> << <<"#", SP, "key", NL>>, <<NL>>,
                                     <<"OTHER", "=", "x", NL>>,
                                     <<KEY, "=", "abc", NL>> >>],
      [kind |-> "file", lines |-> << <<KEY, "=", SQ, SQ, NL>> >>],
      [kind |-> "file", lines |-> << <<KEY, "=", NL>>, <<KEY, "=", "abc", NL>> >>],
      [kind |-> "file", lines |-> << <<SP, KEY, SP, "=", "abc", NL>> >>] }

(***************************************************************************)
(* Articles.  An article is a function from the keys present in the JSON   *)
(* object to their values.  A title or description is [kind, words] with   *)
(* kind "str" or "null"; a publishedDate is [kind, wall, off]:             *)
(*   "empty"   the empty string                                            *)
(*   "null"    JSON null                                                   *)
(*   "num"     a JSON number (not a string, truthy)                        *)
(*   "bad"     a string datetime.fromisoformat rejects                     *)
(*   "Z"       an ISO timestamp ending in Z; wall is the time written      *)
(*   "offset"  an ISO timestamp with an explicit UTC offset off            *)
(*   "naive"   an ISO timestamp with neither                               *)
(* Times are seconds since 2024-03-08T00:00:00 (day 0).                    *)
(***************************************************************************)
Day == 24 * 3600
HMS(h, m, s) == h * 3600 + m * 60 + s

Str(ws) == [kind |-> "str", words |-> ws]
Null == [kind |-> "null", words |-> <<>>]
EmptyStr == Str(<<>>)

PdEmpty == [kind |-> "empty", wall |-> 0, off |-> 0]
PdNull == [kind |-> "null", wall |-> 0, off |-> 0]
PdNum == [kind |-> "num", wall |-> 0, off |-> 0]
PdBad == [kind |-> "bad", wall |-> 0, off |-> 0]
PdZ(d, h, m, s) == [kind |-> "Z", wall |-> d * Day + HMS(h, m, s), off |-> 0]
PdOffset(d, h, m, s, o) == [kind |-> "offset", wall |-> d * Day + HMS(h, m, s), off |-> o]
PdNaive(d, h, m, s) == [kind |-> "naive", wall |-> d * Day + HMS(h, m, s), off |-> 0]

\* dict.get(key, default)
Get(a, key, default) == IF key \in DOMAIN a THEN a[key] ELSE default

\* str.lower() of one word.
Lower(w) ==
    CASE w \in {"Before", "BEFORE"} -> "before"
      [] w = "THE" -> "the"
      [] w \in {"Bell", "BELL"} -> "bell"
      [] w \in {"Morning", "MORNING"} -> "morning"
      [] w \in {"Brief", "BRIEF"} -> "brief"
      [] w = "Market" -> "market"
      [] w = "Preview" -> "preview"
      [] w = "Stock" -> "stock"
      [] w = "Stocks" -> "stocks"
      [] w \in {"Futures", "FUTURES"} -> "futures"
      [] w = "Watch" -> "watch"
      [] w = "Pre-Market" -> "pre-market"
      [] w = "Earnings" -> "earnings"
      [] w = "Recap" -> "recap"
      [] OTHER -> w

\* str.lower()
LowerAll(ws) == [i \in 1..Len(ws) |-> Lower(ws[i])]

\* kw in text: kw occurs as a contiguous run of text.
Contains(text, kw) ==
    \E i \in 1..(Len(text) - Len(kw) + 1) : SubSeq(text, i, i + Len(kw) - 1) = kw

\* (x.get(key, "") or ""): the words of the text, none for null or absent.
TextOf(a, key) == Get(a, key, EmptyStr).words

(***************************************************************************)
(* Time: datetime.fromisoformat, astimezone(US/Eastern), time(), strftime. *)
(* A datetime is [aware, wall, off]: the wall-clock reading and, when      *)
(* aware, its UTC offset.                                                  *)
(***************************************************************************)
\* US/Eastern daylight time begins 2024-03-10T07:00:00Z (day 2 of the model).
DstStart == 2 * Day + HMS(7, 0, 0)

\* UTC offset of US/Eastern at a UTC instant.
EasternOffset(instant) == IF instant < DstStart THEN 0 - HMS(5, 0, 0) ELSE 0 - HMS(4, 0, 0)

\* Whether fromisoformat accepts the string (after the Z replacement).
Parses(ps) == ps.kind \in {"Z", "offset", "naive"}

\* datetime.fromisoformat(s.replace('Z', '+00:00')), for a string it accepts.
fromisoformat(ps) ==
    [aware |-> ps.kind \in {"Z", "offset"}, wall |-> ps.wall, off |-> ps.off]

\* The UTC instant of a datetime; a naive one is taken as system local time.
Instant(dt, tz) == IF dt.aware THEN dt.wall - dt.off ELSE dt.wall - tz

\* dt.astimezone(eastern): the Eastern wall clock and zone name.
astimezone_eastern(dt, tz) ==
    LET i == Instant(dt, tz)
    IN [wall |-> i + EasternOffset(i),
        zone |-> IF i < DstStart THEN "EST" ELSE "EDT"]

\* published_eastern.time(), in seconds since midnight.
TimeOfDay(e) == e.wall % Day

\* market_open_time = time(9, 30, 0)
market_open_time == HMS(9, 30, 0)

\* The cutoff test with <= in place of <.
BeforeOpenInclusive(e) == e.wall % Day <= HMS(9, 30, 0)

\* article_time < market_open_time
BeforeOpen(e) == TimeOfDay(e) < market_open_time

\* The _market_relevance mapping attached by the time filter.
MarketRelevance(e) ==
    ("published_time_eastern" :> <<e.wall, e.zone>>) @@ ("is_pre_market" :> TRUE)

\* UTC offsets of the system zones the model draws from: UTC, Asia/Tokyo.
SystemZones == {0, HMS(9, 0, 0)}

(***************************************************************************)
(* Filter and rank stages of fetch_morning_market_summaries.               *)
(***************************************************************************)
market_tickers == <<"SPY", "QQQ", "DIA", "IWM", "VIX">>

market_summary_keywords ==
    << <<"morning", "brief">>, <<"before", "the", "bell">>, <<"pre-market">>,
       <<"premarket">>, <<"futures">>, <<"market", "preview">>,
       <<"stocks", "to", "watch">>, <<"morning", "update">>,
       <<"morning", "briefing">>, <<"need", "to", "know">>,
       <<"trading", "day", "ahead">>, <<"morning", "bid">>,
       <<"market", "outlook">>, <<"today's", "market">>,
       <<"what", "to", "watch">>, <<"morning", "markets">>,
       <<"opening", "bell">>, <<"stock", "futures">>, <<"dow", "futures">>,
       <<"nasdaq", "futures">>, <<"s&p", "futures">>, <<"markets", "today">>,
       <<"5", "things", "to", "know">>, <<"top", "stories">> >>

\* {article['id']: article for article in all_articles}.values(): one
\* reference per id, at the position of the id's first occurrence, to the
\* last object with that id.
LastWithId(heap, id) ==
    CHOOSE i \in 1..Len(heap) :
        heap[i]["id"] = id /\ \A j \in (i + 1)..Len(heap) : heap[j]["id"] # id

IsFirstWithId(heap, i) == \A j \in 1..(i - 1) : heap[j]["id"] # heap[i]["id"]

\* Dedup keeping the first object fetched with each id.
DedupFirstWins(heap) ==
    SelectSeq([i \in 1..Len(heap) |-> i],
              LAMBDA i : \A j \in 1..(i - 1) : heap[j]["id"] # heap[i]["id"])

RECURSIVE DedupFrom(_, _)
DedupFrom(heap, i) ==
    IF i > Len(heap) THEN <<>>
    ELSE IF IsFirstWithId(heap, i)
         THEN <<LastWithId(heap, heap[i]["id"])>> \o DedupFrom(heap, i + 1)
         ELSE DedupFrom(heap, i + 1)

Dedup(heap) == DedupFrom(heap, 1)

\* The time-filter loop over unique_articles.values(), from reference list
\* refs on, with morning_articles = acc.  exc names the exception that
\* leaves the loop uncaught.
RECURSIVE TimeFilter(_, _, _, _)
TimeFilter(heap, refs, acc, tz) ==
    IF refs = <<>> THEN [heap |-> heap, morning |-> acc, exc |-> "none"]
    ELSE LET i == Head(refs)
             ps == Get(heap[i], "publishedDate", PdEmpty)
         IN IF ps.kind \in {"empty", "null"}
            THEN TimeFilter(heap, Tail(refs), acc, tz)
            ELSE IF ps.kind = "num"
            THEN [heap |-> heap, morning |-> acc, exc |-> "AttributeError"]
            ELSE IF ~Parses(ps)
            THEN TimeFilter(heap, Tail(refs), acc, tz)
            ELSE LET e == astimezone_eastern(fromisoformat(ps), tz)
                 IN IF BeforeOpen(e)
                    THEN TimeFilter(
                            [heap EXCEPT ![i] = ("_market_relevance" :> MarketRelevance(e)) @@ @],
                            Tail(refs), Append(acc, i), tz)
                    ELSE TimeFilter(heap, Tail(refs), acc, tz)

\* any(keyword in title_lower or keyword in description_lower ...)
MatchesKeyword(a) ==
    \E k \in 1..Len(market_summary_keywords) :
        \/ Contains(LowerAll(TextOf(a, "title")), market_summary_keywords[k])
        \/ Contains(LowerAll(TextOf(a, "description")), market_summary_keywords[k])

\* The keyword-filter loop over morning_articles.
RECURSIVE KeywordFilter(_, _, _)
KeywordFilter(heap, refs, acc) ==
    IF refs = <<>> THEN [heap |-> heap, summary |-> acc]
    ELSE LET i == Head(refs)
         IN IF MatchesKeyword(heap[i])
            THEN KeywordFilter(
                    [heap EXCEPT ![i]["_market_relevance"] =
                                     ("is_likely_summary" :> TRUE) @@ @],
                    Tail(refs), Append(acc, i))
            ELSE KeywordFilter(heap, Tail(refs), acc)

\* 1 if phrase in (x.get("title", "") or "").lower() else 0
TitleHas(a, phrase) == IF Contains(LowerAll(TextOf(a, "title")), phrase) THEN 1 ELSE 0

\* The four phrase components of the sort key.
PhraseKey(a) ==
    <<TitleHas(a, <<"before", "the", "bell">>),
      TitleHas(a, <<"morning", "brief">>),
      TitleHas(a, <<"market", "preview">>),
      TitleHas(a, <<"futures">>)>>

\* The last component of the sort key.
DateKey(a) == fromisoformat(Get(a, "publishedDate", PdEmpty))

\* Tuple comparison of the phrase components.
PhraseLess(p, q) ==
    \E k \in 1..4 : p[k] < q[k] /\ \A m \in 1..(k - 1) : p[m] = q[m]

\* datetime < datetime, for two aware or two naive datetimes.
DateLess(d1, d2) ==
    IF d1.aware THEN d1.wall - d1.off < d2.wall - d2.off ELSE d1.wall < d2.wall

\* key(a) < key(b), where the comparison is defined.
KeyLess(a, b) ==
    \/ PhraseLess(PhraseKey(a), PhraseKey(b))
    \/ PhraseKey(a) = PhraseKey(b) /\ DateLess(DateKey(a), DateKey(b))

\* Comparing an aware with a naive datetime raises TypeError.  A comparison
\* sort cannot order two entries with equal phrase components without a
\* chain of comparisons among the entries with those components, so the
\* sort raises exactly when such a group mixes aware and naive timestamps.
SortRaises(heap, refs) ==
    \E m, n \in 1..Len(refs) :
        /\ PhraseKey(heap[refs[m]]) = PhraseKey(heap[refs[n]])
        /\ DateKey(heap[refs[m]]).aware # DateKey(heap[refs[n]]).aware

\* An insertion that puts x before the entries with an equal key.
InsertDescUnstable(heap, sorted, x) ==
    LET n == Cardinality({m \in 1..Len(sorted) : KeyLess(heap[x], heap[sorted[m]])})
    IN SubSeq(sorted, 1, n) \o <<x>> \o SubSeq(sorted, n + 1, Len(sorted))

\* Where list.sort(reverse=True) puts x among the already sorted entries:
\* behind every entry whose key is not smaller (equal keys keep input order).
InsertDesc(heap, sorted, x) ==
    LET n == Cardinality({m \in 1..Len(sorted) : ~KeyLess(heap[sorted[m]], heap[x])})
    IN SubSeq(sorted, 1, n) \o <<x>> \o SubSeq(sorted, n + 1, Len(sorted))

\* summary_articles.sort(key=..., reverse=True)
RECURSIVE SortDesc(_, _, _)
SortDesc(heap, refs, acc) ==
    IF refs = <<>> THEN acc
    ELSE SortDesc(heap, Tail(refs), InsertDesc(heap, acc, Head(refs)))

\* A return without the fallback to morning_articles.
ReturnSummaryOnly(summary, morning) == summary

\* return summary_articles if summary_articles else morning_articles
ReturnValue(summary, morning) == IF summary # <<>> THEN summary ELSE morning

(***************************************************************************)
(* Sink: json.dump(articles, f, indent=2) and its inverse json.load.  The  *)
(* file text is a sequence of JSON objects, each a sequence of             *)
(* <<key, value>> members in the insertion order of the dict.              *)
(***************************************************************************)
KeyOrder == <<"id", "title", "description", "publishedDate", "_market_relevance">>
RelevanceOrder == <<"published_time_eastern", "is_pre_market", "is_likely_summary">>

\* The keys of mapping d, in the order the dict holds them.
PresentKeys(d, order) == SelectSeq(order, LAMBDA k : k \in DOMAIN d)

\* The value of the member with key k (the last one, as json.load keeps it).
MemberValue(members, k) ==
    members[CHOOSE n \in 1..Len(members) :
                members[n][1] = k /\ \A m \in (n + 1)..Len(members) : members[m][1] # k][2]

MemberKeys(members) == {members[n][1] : n \in 1..Len(members)}

EncodeRelevance(k, v) ==
    IF k = "published_time_eastern" THEN <<"string", v>>
    ELSE IF v THEN <<"true">> ELSE <<"false">>

EncodeRelevanceObject(d) ==
    LET ks == PresentKeys(d, RelevanceOrder)
    IN [n \in 1..Len(ks) |-> <<ks[n], EncodeRelevance(ks[n], d[ks[n]])>>]

EncodeField(k, v) ==
    IF k = "id" THEN <<"number", v>>
    ELSE IF k = "_market_relevance" THEN <<"object", EncodeRelevanceObject(v)>>
    ELSE IF v.kind = "null" THEN <<"null">>
    ELSE IF v.kind = "num" THEN <<"number", v>>
    ELSE <<"string", v>>

EncodeArticle(a) ==
    LET ks == PresentKeys(a, KeyOrder)
    IN [n \in 1..Len(ks) |-> <<ks[n], EncodeField(ks[n], a[ks[n]])>>]

\* json.dump of the article objects listed by refs.
json_dump(heap, refs) == [n \in 1..Len(refs) |-> EncodeArticle(heap[refs[n]])]

DecodeRelevance(jv) == IF jv[1] = "string" THEN jv[2] ELSE jv[1] = "true"

DecodeRelevanceObject(members) ==
    [k \in MemberKeys(members) |-> DecodeRelevance(MemberValue(members, k))]

DecodeField(k, jv) ==
    IF jv[1] = "object" THEN DecodeRelevanceObject(jv[2])
    ELSE IF jv[1] = "null" THEN (IF k = "publishedDate" THEN PdNull ELSE Null)
    ELSE jv[2]

DecodeArticle(members) ==
    [k \in MemberKeys(members) |-> DecodeField(k, MemberValue(members, k))]

\* json.load of a file text: the article collection it holds.
json_load(text) == [n \in 1..Len(text) |-> DecodeArticle(text[n])]

\* The article objects listed by refs.
Deref(heap, refs) == [n \in 1..Len(refs) |-> heap[refs[n]]]

(***************************************************************************)
(* The articles the API serves in the model.                               *)
(***************************************************************************)
Art(id, title, pd) == ("id" :> id) @@ ("title" :> Str(title)) @@ ("publishedDate" :> pd)

Feed ==
    { Art(1, <<"Earnings", "Recap">>, PdZ(1, 8, 0, 0)),
      Art(1, <<"Before", "the", "Bell">>, PdZ(1, 14, 0, 0)) @@ ("description" :> Null),
      Art(2, <<"Stock", "FUTURES">>, PdZ(1, 14, 29, 59)),
      Art(3, <<"Stock", "Futures">>, PdOffset(1, 15, 29, 59, HMS(1, 0, 0))),
      Art(2, <<"MORNING", "BRIEF">>, PdZ(1, 14, 0, 0)),
      Art(3, <<"Market", "Preview">>, PdZ(1, 8, 0, 0)),
      Art(1, <<"Stock", "Futures">>, PdNaive(1, 8, 0, 0)),
      Art(2, <<"Earnings", "Recap">>, PdZ(1, 14, 30, 0)),
      Art(3, <<"Before", "the", "Bell">>, PdZ(1, 15, 0, 0)),
      Art(3, <<"Stocks", "to", "Watch", "Futures", "update">>, PdZ(3, 13, 29, 59)),
      Art(2, <<"BEFORE", "THE", "BELL">>, PdZ(3, 13, 30, 0)),
      Art(1, <<"Before", "the", "Bell">>, PdBad),
      ("id" :> 2) @@ ("description" :> Str(<<"Pre-Market", "movers">>))
          @@ ("publishedDate" :> PdZ(1, 8, 0, 0)),
      ("id" :> 3) @@ ("title" :> Null),
      Art(1, <<"Stock", "Futures">>, PdNum),
      Art(2, <<"Market", "Preview">>, PdNull),
      Art(3, <<"Earnings", "Recap">>, PdEmpty) }

\* The JSON arrays of at most n articles.
Batches(n) == UNION {[1..k -> Feed] : k \in 0..n}

\* How a request can end: a 200 response with a JSON array, an HTTPError
\* (4xx/5xx), a URLError (transport), a status other than 200, a body that
\* json.load rejects.
FailureStatuses == {"http_error", "url_error", "status_not_200", "bad_json"}

Scripts == {"news", "top", "morning"}

NoSink == [output |-> "unset", parent_existed |-> FALSE, perm_ok |-> FALSE]
NoFile == [written |-> FALSE, text |-> <<>>]

\* Values of --count the model draws from.
CountArgs == (0 - 1)..MaxCount

\* data[:count]
Slice(refs, count) ==
    IF count >= 0 THEN SubSeq(refs, 1, Min(count, Len(refs)))
    ELSE SubSeq(refs, 1, Max(0, Len(refs) + count))

Refs(n) == [i \in 1..n |-> i]

(***************************************************************************)
(* The run.                                                                *)
(***************************************************************************)
Init ==
    /\ script \in Scripts
    /\ pc = "start"
    /\ api_key = <<>>
    /\ ticker_idx = 0
    /\ requested = <<>>
    /\ delivered = <<>>
    /\ all_articles = <<>>
    /\ unique_articles = <<>>
    /\ morning_articles = <<>>
    /\ summary_articles = <<>>
    /\ articles = <<>>
    /\ system_tz = 0
    /\ sink = NoSink
    /\ dir_exists = FALSE
    /\ file = NoFile
    /\ stdout_last = <<>>
    /\ previewed = FALSE
    /\ err = "none"

\* An except clause that prints the error and lets main() go on to the sink.
MainErrorFallsThrough(exc) ==
    /\ pc' = "sink"
    /\ api_key' = <<>>
    /\ err' = exc
    /\ stdout_last' = IF script = "news" THEN <<"Error fetching news">> ELSE <<"Error">>

\* The except clause of main() around the failed call: print the error, end.
MainError(exc) ==
    /\ pc' = "done"
    /\ api_key' = <<>>
    /\ err' = exc
    /\ stdout_last' = IF script = "news" THEN <<"Error fetching news">> ELSE <<"Error">>

\* api_key = get_api_key(), first statement of each fetch function.
ResolveKey ==
    /\ pc = "start"
    /\ \E env \in EnvValues, envfile \in EnvFiles :
          LET r == get_api_key(env, envfile)
          IN IF r.raised
             THEN MainError("credential")
             ELSE /\ api_key' = r.key
                  /\ pc' = "fetch"
                  /\ stdout_last' = CASE script = "news" -> <<"Headers">>
                                      [] script = "top" -> <<"Fetching top financial news articles">>
                                      [] OTHER -> stdout_last
                  /\ UNCHANGED err
    /\ UNCHANGED <<script, ticker_idx, requested, delivered, all_articles,
                   unique_articles, morning_articles, summary_articles, articles,
                   system_tz, sink, dir_exists, file, previewed>>

\* fetch_news_articles after get_api_key, and main() up to the sink:
\* a successful request.
NewsFetchOk ==
    /\ pc = "fetch" /\ script = "news"
    /\ \E data \in Batches(MaxArticles), count \in CountArgs :
          /\ all_articles' = data
          /\ delivered' = data
          /\ articles' = Slice(Refs(Len(data)), count)
    /\ requested' = Append(requested, "news")
    /\ IF articles' = <<>>
       THEN pc' = "done" /\ stdout_last' = <<"No recent news articles found.">>
       ELSE pc' = "sink" /\ stdout_last' = <<"Response status">>
    /\ api_key' = <<>>
    /\ UNCHANGED <<script, ticker_idx, unique_articles, morning_articles,
                   summary_articles, system_tz, sink, dir_exists, file, previewed, err>>

\* fetch_news_articles: a failed request; the RuntimeError reaches main().
NewsFetchFail ==
    /\ pc = "fetch" /\ script = "news"
    /\ \E status \in FailureStatuses : MainError(status)
    /\ requested' = Append(requested, "news")
    /\ UNCHANGED <<script, ticker_idx, delivered, all_articles,
                   unique_articles, morning_articles, summary_articles, articles,
                   system_tz, sink, dir_exists, file, previewed>>

\* fetch_tiingo_top_articles after get_api_key, and main() up to the sink.
TopFetchOk ==
    /\ pc = "fetch" /\ script = "top"
    /\ \E data \in Batches(MaxArticles) :
          /\ all_articles' = data
          /\ delivered' = data
          /\ articles' = Refs(Len(data))
    /\ requested' = Append(requested, "top")
    /\ IF articles' = <<>>
       THEN pc' = "done" /\ stdout_last' = <<"No top financial news articles found.">>
       ELSE pc' = "sink" /\ stdout_last' = <<"Found top financial news articles">>
    /\ api_key' = <<>>
    /\ UNCHANGED <<script, ticker_idx, unique_articles, morning_articles,
                   summary_articles, system_tz, sink, dir_exists, file, previewed, err>>

TopFetchFail ==
    /\ pc = "fetch" /\ script = "top"
    /\ \E status \in FailureStatuses : MainError(status)
    /\ requested' = Append(requested, "top")
    /\ UNCHANGED <<script, ticker_idx, delivered, all_articles,
                   unique_articles, morning_articles, summary_articles, articles,
                   system_tz, sink, dir_exists, file, previewed>>

\* One iteration of the ticker loop whose request succeeds with array data.
FetchTickerOk(data) ==
    /\ pc = "fetch" /\ script = "morning"
    /\ ticker_idx < Len(market_tickers)
    /\ Len(all_articles) + Len(data) <= MaxArticles
    /\ requested' = Append(requested, market_tickers[ticker_idx + 1])
    /\ stdout_last' = <<"Fetching", market_tickers[ticker_idx + 1]>>
    /\ all_articles' = all_articles \o data
    /\ delivered' = delivered \o data
    /\ ticker_idx' = ticker_idx + 1
    /\ UNCHANGED <<script, pc, api_key, unique_articles, morning_articles,
                   summary_articles, articles, system_tz, sink, dir_exists, file,
                   previewed, err>>

\* A failed iteration that leaves the loop (break) instead of continuing.
FetchTickerFailBreaks(status) ==
    /\ pc = "fetch" /\ script = "morning"
    /\ ticker_idx < Len(market_tickers)
    /\ requested' = Append(requested, market_tickers[ticker_idx + 1])
    /\ stdout_last' = IF status = "http_error"
                      THEN <<"HTTP error for", market_tickers[ticker_idx + 1]>>
                      ELSE <<"Error fetching", market_tickers[ticker_idx + 1]>>
    /\ ticker_idx' = Len(market_tickers)
    /\ UNCHANGED <<script, pc, api_key, delivered, all_articles, unique_articles,
                   morning_articles, summary_articles, articles, system_tz, sink,
                   dir_exists, file, previewed, err>>

\* One iteration of the ticker loop whose request fails: the except clauses
\* print and continue.
FetchTickerFail(status) ==
    /\ pc = "fetch" /\ script = "morning"
    /\ ticker_idx < Len(market_tickers)
    /\ requested' = Append(requested, market_tickers[ticker_idx + 1])
    /\ stdout_last' = IF status = "http_error"
                      THEN <<"HTTP error for", market_tickers[ticker_idx + 1]>>
                      ELSE <<"Error fetching", market_tickers[ticker_idx + 1]>>
    /\ ticker_idx' = ticker_idx + 1
    /\ UNCHANGED <<script, pc, api_key, delivered, all_articles, unique_articles,
                   morning_articles, summary_articles, articles, system_tz, sink,
                   dir_exists, file, previewed, err>>

FetchTicker ==
    \/ \E data \in Batches(MaxArticles - Len(all_articles)) : FetchTickerOk(data)
    \/ \E status \in FailureStatuses : FetchTickerFail(status)

\* Remove duplicates by ID, after the loop.
DedupStage ==
    /\ pc = "fetch" /\ script = "morning"
    /\ ticker_idx = Len(market_tickers)
    /\ unique_articles' = Dedup(all_articles)
    /\ stdout_last' = <<"Found unique articles">>
    /\ pc' = "time_filter"
    /\ UNCHANGED <<script, api_key, ticker_idx, requested, delivered, all_articles,
                   morning_articles, summary_articles, articles, system_tz, sink,
                   dir_exists, file, previewed, err>>

\* astimezone() reads the system zone only for a naive datetime: the zones
\* the time filter can meet for the articles listed by refs.
ZonesRead(heap, refs) ==
    IF \E n \in 1..Len(refs) : Get(heap[refs[n]], "publishedDate", PdEmpty).kind = "naive"
    THEN SystemZones ELSE {0}

\* Filter articles published before 9:30 AM Eastern.
TimeFilterStage ==
    /\ pc = "time_filter"
    /\ \E tz \in ZonesRead(all_articles, unique_articles) :
          LET r == TimeFilter(all_articles, unique_articles, <<>>, tz)
          IN /\ system_tz' = tz
             /\ all_articles' = r.heap
             /\ morning_articles' = r.morning
             /\ IF r.exc = "none"
                THEN /\ pc' = "keyword_filter"
                     /\ stdout_last' = <<"Found articles published before 9:30 AM EST">>
                     /\ UNCHANGED <<api_key, err>>
                ELSE MainError(r.exc)
    /\ UNCHANGED <<script, ticker_idx, requested, delivered,
                   unique_articles, summary_articles, articles, sink, dir_exists,
                   file, previewed>>

\* Filter for articles that are likely market summaries.
KeywordStage ==
    /\ pc = "keyword_filter"
    /\ LET r == KeywordFilter(all_articles, morning_articles, <<>>)
       IN /\ all_articles' = r.heap
          /\ summary_articles' = r.summary
    /\ stdout_last' = <<"Found likely market summary articles">>
    /\ pc' = "rank"
    /\ UNCHANGED <<script, api_key, ticker_idx, requested, delivered,
                   unique_articles, morning_articles, articles, system_tz, sink,
                   dir_exists, file, previewed, err>>

\* Sort, return, and main()'s test of the result.
RankStage ==
    /\ pc = "rank"
    /\ IF SortRaises(all_articles, summary_articles)
       THEN /\ MainError("TypeError")
            /\ UNCHANGED <<summary_articles, articles>>
       ELSE /\ summary_articles' = SortDesc(all_articles, summary_articles, <<>>)
            /\ articles' = ReturnValue(summary_articles', morning_articles)
            /\ IF articles' = <<>>
               THEN pc' = "done" /\ stdout_last' = <<"No morning market summaries found.">>
               ELSE pc' = "sink" /\ UNCHANGED stdout_last
            /\ api_key' = <<>>
            /\ UNCHANGED err
    /\ UNCHANGED <<script, ticker_idx, requested, delivered, all_articles,
                   unique_articles, morning_articles, system_tz, sink, dir_exists,
                   file, previewed>>

\* with open(output, 'w') as f: json.dump(articles, f, indent=2), inside
\* try/except Exception.  opened tells whether open() succeeds.
WriteFile(opened) ==
    IF opened
    THEN /\ file' = [written |-> TRUE, text |-> json_dump(all_articles, articles)]
         /\ stdout_last' = <<"Saved">>
    ELSE /\ UNCHANGED file
         /\ stdout_last' = <<"Error saving to file">>

\* fetch_tiingo_news.py main(): save to args.output if it is given.
\* parent: whether the output path's parent directory exists; perm: whether
\* the file system lets the process create and write there.
NewsSink ==
    /\ pc = "sink" /\ script = "news"
    /\ \E out \in {"none", "path"}, parent \in BOOLEAN, perm \in BOOLEAN :
          /\ out = "none" => parent /\ perm
          /\ sink' = [output |-> out, parent_existed |-> parent, perm_ok |-> perm]
          /\ dir_exists' = parent
          /\ IF out = "none"
             THEN UNCHANGED <<file, stdout_last>>
             ELSE WriteFile(parent /\ perm)
    /\ pc' = "preview"
    /\ UNCHANGED <<script, api_key, ticker_idx, requested, delivered, all_articles,
                   unique_articles, morning_articles, summary_articles, articles,
                   system_tz, previewed, err>>

\* fetch_tiingo_top_articles.py main(): os.makedirs(os.path.dirname(output),
\* exist_ok=True) outside the inner try, then the guarded write.  Output
\* "bare" is a file name without a directory part: dirname is '' and
\* os.makedirs('') raises FileNotFoundError.
TopSink ==
    /\ pc = "sink" /\ script = "top"
    /\ \E out \in {"path", "bare"}, parent \in BOOLEAN, perm \in BOOLEAN :
          /\ out = "bare" => parent
          /\ sink' = [output |-> out, parent_existed |-> parent, perm_ok |-> perm]
          /\ IF out = "bare" \/ (~parent /\ ~perm)
             THEN /\ MainError("makedirs")
                  /\ dir_exists' = parent
                  /\ UNCHANGED file
             ELSE /\ dir_exists' = TRUE
                  /\ WriteFile(perm)
                  /\ pc' = "preview"
                  /\ UNCHANGED <<api_key, err>>
    /\ UNCHANGED <<script, ticker_idx, requested, delivered, all_articles,
                   unique_articles, morning_articles, summary_articles, articles,
                   system_tz, previewed>>

\* fetch_morning_market_summaries.py main(): the guarded write to the fixed
\* output path.
MorningSink ==
    /\ pc = "sink" /\ script = "morning"
    /\ \E parent \in BOOLEAN, perm \in BOOLEAN :
          /\ sink' = [output |-> "path", parent_existed |-> parent, perm_ok |-> perm]
          /\ dir_exists' = parent
          /\ WriteFile(parent /\ perm)
    /\ pc' = "preview"
    /\ UNCHANGED <<script, api_key, ticker_idx, requested, delivered, all_articles,
                   unique_articles, morning_articles, summary_articles, articles,
                   system_tz, previewed, err>>

\* The console preview of the articles.
Preview ==
    /\ pc = "preview"
    /\ previewed' = TRUE
    /\ stdout_last' = <<"Article preview">>
    /\ pc' = "done"
    /\ UNCHANGED <<script, api_key, ticker_idx, requested, delivered, all_articles,
                   unique_articles, morning_articles, summary_articles, articles,
                   system_tz, sink, dir_exists, file, err>>

Next ==
    \/ ResolveKey
    \/ NewsFetchOk
    \/ NewsFetchFail
    \/ TopFetchOk
    \/ TopFetchFail
    \/ FetchTicker
    \/ DedupStage
    \/ TimeFilterStage
    \/ KeywordStage
    \/ RankStage
    \/ NewsSink
    \/ TopSink
    \/ MorningSink
    \/ Preview

Spec == Init /\ [][Next]_vars

(***************************************************************************)
(* Properties.                                                             *)
(***************************************************************************)
\* The run of the morning script has left the ticker loop and deduplicated.
AfterDedup ==
    /\ script = "morning"
    /\ \/ pc \in {"time_filter", "keyword_filter", "rank", "sink", "preview"}
       \/ pc = "done" /\ err # "credential"

\* The time filter has run to its end.
AfterTimeFilter ==
    /\ script = "morning"
    /\ \/ pc \in {"keyword_filter", "rank", "sink", "preview"}
       \/ pc = "done" /\ err \in {"none", "TypeError"}

\* fetch_morning_market_summaries has returned its result to main().
Returned ==
    /\ script = "morning"
    /\ \/ pc \in {"sink", "preview"}
       \/ pc = "done" /\ err = "none"

PublishedDate(i) == Get(all_articles[i], "publishedDate", PdEmpty)

C1_Order ==
    script = "morning" =>
        /\ Len(requested) = ticker_idx
        /\ requested = SubSeq(market_tickers, 1, Len(requested))
        /\ AfterDedup => requested = market_tickers
        /\ pc \in {"fetch", "time_filter"} => all_articles = delivered

C1_FailureSkipped ==
    \A status \in FailureStatuses :
        FetchTickerFail(status) =>
            /\ all_articles' = all_articles
            /\ pc' = "fetch" /\ err' = "none"
            /\ ticker_idx' = ticker_idx + 1
            /\ stdout_last' \in {<<"HTTP error for", market_tickers[ticker_idx']>>,
                                 <<"Error fetching", market_tickers[ticker_idx']>>}

\* C1: the morning script requests SPY, QQQ, DIA, IWM, VIX one after another
\* in that order; a failed fetch is logged, leaves all_articles unchanged and
\* the loop goes on to the next ticker; dedup starts, after all five
\* requests, with exactly the articles of the successful responses in order.
C1_TickerLoopContinues == []C1_Order /\ [][C1_FailureSkipped]_vars

\* A failed QQQ fetch after a SPY fetch that delivered articles.
C1_Witness ==
    /\ script = "morning" /\ pc = "fetch"
    /\ stdout_last = <<"HTTP error for", "QQQ">>
    /\ all_articles # <<>>

\* C2: when credential resolution fails (any script) or the single fetch of
\* fetch_tiingo_news / fetch_tiingo_top_articles fails, the run prints an
\* error message and ends with no output file written and no preview printed.
C2_FatalFailureEndsRun ==
    (err = "credential" \/ (script \in {"news", "top"} /\ err \in FailureStatuses)) =>
        /\ pc = "done"
        /\ stdout_last \in {<<"Error fetching news">>, <<"Error">>}
        /\ ~file.written
        /\ ~previewed

\* fetch_tiingo_top_articles ended by an HTTP error status.
C2_Witness ==
    /\ script = "top" /\ pc = "done" /\ err = "http_error"
    /\ stdout_last = <<"Error">>

\* C3: the deduplicated collection holds exactly one entry per distinct id
\* of the fetched articles, and that entry is the object fetched last with
\* the id.
C3_DedupLastWins ==
    AfterDedup =>
        /\ \A i \in 1..Len(all_articles) :
              Cardinality({n \in 1..Len(unique_articles) :
                  all_articles[unique_articles[n]]["id"] = all_articles[i]["id"]}) = 1
        /\ \A n \in 1..Len(unique_articles) :
              /\ unique_articles[n] \in 1..Len(all_articles)
              /\ \A j \in 1..Len(all_articles) :
                    all_articles[j]["id"] = all_articles[unique_articles[n]]["id"]
                        => j <= unique_articles[n]

\* Two different records with one id were fetched; the second is kept.
C3_Witness ==
    /\ script = "morning" /\ pc = "time_filter"
    /\ Len(all_articles) = 2
    /\ all_articles[1]["id"] = all_articles[2]["id"]
    /\ all_articles[1] # all_articles[2]
    /\ unique_articles = <<2>>

\* The UTC instant a publishedDate denotes (a timestamp without marker or
\* offset is read in the system zone).
C4_Instant(ps) ==
    CASE ps.kind = "Z" -> ps.wall
      [] ps.kind = "offset" -> ps.wall - ps.off
      [] ps.kind = "naive" -> ps.wall - system_tz

\* Seconds since midnight, US Eastern, of a UTC instant.
C4_EasternTimeOfDay(i) ==
    (IF i < DstStart THEN i - 5 * 3600 ELSE i - 4 * 3600) % Day

C4_Retained(i) ==
    /\ PublishedDate(i).kind \in {"Z", "offset", "naive"}
    /\ C4_EasternTimeOfDay(C4_Instant(PublishedDate(i))) < 9 * 3600 + 30 * 60

\* C4: the time filter keeps a deduplicated article iff its publishedDate
\* parses to an instant whose US Eastern time of day is strictly before
\* 09:30:00 (08:00Z and 14:00Z kept, 14:30Z and 15:00Z dropped under UTC-5);
\* missing and unparseable dates are dropped; the kept keep their order.
C4_TimeFilterExact ==
    AfterTimeFilter =>
        /\ morning_articles = SelectSeq(unique_articles, C4_Retained)
        /\ \A n \in 1..Len(unique_articles) :
              LET i == unique_articles[n]
              IN /\ PublishedDate(i) \in {PdZ(1, 8, 0, 0), PdZ(1, 14, 0, 0)}
                        => i \in Range(morning_articles)
                 /\ PublishedDate(i) \in {PdZ(1, 14, 30, 0), PdZ(1, 15, 0, 0),
                                          PdBad, PdNull, PdEmpty}
                        => i \notin Range(morning_articles)

\* An article of exactly 09:30:00 Eastern is dropped next to a kept one of
\* 09:29:59 Eastern.
C4_Witness ==
    /\ script = "morning" /\ pc = "keyword_filter"
    /\ \E m, n \in 1..Len(unique_articles) :
          /\ PublishedDate(unique_articles[m]) = PdZ(1, 14, 30, 0)
          /\ unique_articles[m] \notin Range(morning_articles)
          /\ PublishedDate(unique_articles[n]).kind = "offset"
          /\ unique_articles[n] \in Range(morning_articles)

\* The time-filtered articles with a keyword phrase in title or description.
C5_Matches == {i \in Range(morning_articles) : MatchesKeyword(all_articles[i])}

\* C5: the function returns the keyword-filtered, ranked articles when some
\* time-filtered article holds a keyword phrase (in any letter case) in its
\* title or description, and the whole time-filtered collection otherwise;
\* the result is empty only if the time-filtered collection is.
C5_KeywordFallback ==
    Returned =>
        /\ IF C5_Matches # {}
           THEN /\ articles = summary_articles
                /\ Range(articles) = C5_Matches
                /\ Len(articles) = Cardinality(C5_Matches)
           ELSE articles = morning_articles
        /\ articles = <<>> => morning_articles = <<>>
        /\ \A i \in Range(morning_articles) :
              \/ Get(all_articles[i], "title", Null) = Str(<<"MORNING", "BRIEF">>)
              \/ Get(all_articles[i], "description", Null) = Str(<<"Pre-Market", "movers">>)
              => i \in Range(articles)

\* No time-filtered article matches a keyword: the time-filtered collection
\* is returned.
C5_Witness ==
    /\ script = "morning" /\ pc = "sink"
    /\ summary_articles = <<>>
    /\ morning_articles # <<>>
    /\ articles = morning_articles

\* C6: in the morning script no publishedDate of an article (absent, empty,
\* null, not a string, unparseable, or parseable without UTC marker or
\* offset) aborts the run: once the articles are fetched, the run completes
\* dedup, the filters and the ranking and returns a result.
C6_DataErrorNeverAborts ==
    (script = "morning" /\ pc = "done" /\ err # "credential") =>
        err = "none" /\ Returned

\* C7: once fetch/filter has produced a non-empty result, a failure to write
\* the output file, a failure to create or open the target path included,
\* is logged and not fatal: the run goes on and the preview is printed.
C7_WriteFailureNotFatal ==
    (pc = "done" /\ sink.output \in {"path", "bare"} /\ ~file.written) =>
        previewed /\ err = "none"

\* C8: get_api_key returns a non-empty token or signals a configuration
\* error; it never returns an empty string.
C8_KeyNeverEmpty == pc = "fetch" => api_key # <<>>

\* C10: for each script's file sink, with a non-empty result and an output
\* path whose parent directory does not exist, the sink creates the
\* directory and writes the whole article sequence as JSON that parses back
\* into the same collection.
C10_SinkCreatesParent ==
    (pc \in {"preview", "done"} /\ sink.output = "path"
        /\ ~sink.parent_existed /\ sink.perm_ok) =>
        /\ dir_exists
        /\ file.written
        /\ json_load(file.text) = Deref(all_articles, articles)

\* The sort key of the claim: the four phrase tests on the lower-cased
\* title, then the publish instant.
C9_Flag(i, phrase) ==
    IF \E k \in 1..Len(TextOf(all_articles[i], "title")) :
          /\ k + Len(phrase) - 1 <= Len(TextOf(all_articles[i], "title"))
          /\ \A m \in 1..Len(phrase) :
                Lower(TextOf(all_articles[i], "title")[k + m - 1]) = phrase[m]
    THEN 1 ELSE 0

C9_Key(i) ==
    <<C9_Flag(i, <<"before", "the", "bell">>),
      C9_Flag(i, <<"morning", "brief">>),
      C9_Flag(i, <<"market", "preview">>),
      C9_Flag(i, <<"futures">>),
      C4_Instant(PublishedDate(i))>>

\* Lexicographic order of two keys.
C9_Less(p, q) == \E k \in 1..5 : p[k] < q[k] /\ \A m \in 1..(k - 1) : p[m] = q[m]

\* Position of reference i in the keyword-filter output order.
C9_InputPos(i) == CHOOSE n \in 1..Len(morning_articles) : morning_articles[n] = i

\* C9: the ranking outputs the keyword-filtered articles sorted descending
\* by (has "before the bell", has "morning brief", has "market preview",
\* has "futures", publish instant), the phrase tests case-insensitive on the
\* title; articles with equal keys keep their relative input order.
C9_RankedStable ==
    Returned =>
        /\ Range(summary_articles) = C5_Matches
        /\ Len(summary_articles) = Cardinality(C5_Matches)
        /\ \A m, n \in 1..Len(summary_articles) :
              m < n =>
                 /\ ~C9_Less(C9_Key(summary_articles[m]), C9_Key(summary_articles[n]))
                 /\ C9_Key(summary_articles[m]) = C9_Key(summary_articles[n])
                        => C9_InputPos(summary_articles[m]) < C9_InputPos(summary_articles[n])

\* Two ranked articles with the same phrase key and the same publish
\* instant, kept in their input order.
C9_Witness ==
    /\ script = "morning" /\ pc = "sink"
    /\ Len(summary_articles) = 2
    /\ C9_Key(summary_articles[1]) = C9_Key(summary_articles[2])
    /\ summary_articles[1] < summary_articles[2]


\* The fields of the _market_relevance mapping of article i, the empty set
\* when the article carries no such mapping.
C11_Fields(i) ==
    IF "_market_relevance" \in DOMAIN all_articles[i]
    THEN DOMAIN all_articles[i]["_market_relevance"]
    ELSE {}

\* Every returned article carries the complete mapping.
C11_ReturnedComplete ==
    Returned =>
        \A i \in Range(articles) :
            /\ C11_Fields(i) =
                  {"published_time_eastern", "is_pre_market", "is_likely_summary"}
            /\ all_articles[i]["_market_relevance"]["is_pre_market"] \in BOOLEAN
            /\ all_articles[i]["_market_relevance"]["is_likely_summary"] \in BOOLEAN

\* Only time-filtered articles carry a mapping.
C11_OnlyTimeFiltered ==
    \A i \in DOMAIN all_articles :
        C11_Fields(i) # {} => i \in Range(morning_articles)

\* C11: every article returned by fetch_morning_market_summaries, on the
\* keyword-matched path and on the fallback path, carries a
\* _market_relevance mapping with published_time_eastern and the two boolean
\* flags is_pre_market and is_likely_summary, and no article outside the
\* time-filtered collection carries _market_relevance.
C11_RelevanceOnReturned ==
    /\ C11_ReturnedComplete
    /\ C11_OnlyTimeFiltered


\* The keyword-matched path: some time-filtered article matches a keyword.
C11_KeywordPath ==
    (Returned /\ summary_articles # <<>>) => C11_ReturnedComplete

\* The fallback path returns time-filtered articles whose mapping lacks
\* is_likely_summary.
C11_FallbackReached ==
    /\ Returned /\ summary_articles = <<>> /\ articles # <<>>
    /\ \A i \in Range(articles) :
          C11_Fields(i) = {"published_time_eastern", "is_pre_market"}

\* An article dropped by the time filter next to one it kept.
C11_OutsideReached ==
    /\ Returned
    /\ \E i \in Range(unique_articles) : i \notin Range(morning_articles)
    /\ morning_articles # <<>>

====
